---- MODULE Spec2Model ----
(***************************************************************************)
(* Model of the file search (searchFiles / searchWithEverything /          *)
(* searchFileSystem / searchDirectory) and of the process-list parser      *)
(* (parseWindowsCSV / getRunningProcesses) of the extension examples.      *)
(*                                                                         *)
(* Text is a sequence of one-character strings.  A path is the id of a     *)
(* node of a fixed directory forest; an entry's name is a sequence of      *)
(* characters chosen in Init.                                              *)
(***************************************************************************)
EXTENDS Integers, Sequences, FiniteSets, TLC

VARIABLES
    \* ---- file system and preferences (inputs of the file search) ----
    entryName,        \* node -> name of the directory entry
    unreadable,       \* directories whose fs.readdir rejects
    statFails,        \* paths whose fs.stat rejects
    query,            \* the debounced search text
    searchPaths,      \* preferences.searchPaths, split and trimmed
    maxResults,       \* parseInt(preferences.maxResults) || 100
    includeHidden,    \* preferences.includeHidden
    excludePatterns,  \* preferences.excludePatterns, split and trimmed
    useEverything,    \* preferences.useEverything
    \* ---- one searchFiles call ----
    pc,               \* position of the searchFiles call
    args,             \* parameters searchFileSystem was called with
    files,            \* the shared results array of the walk
    pathIdx,          \* index of the for-loop over searchPaths
    stack,            \* searchDirectory activations, innermost last
    result,           \* SearchResult.files returned by searchFiles
    isSearching,      \* React state isSearching
    esFailed,         \* the es.exe subprocess failed in this call
    listed,           \* directories fs.readdir was called on
    statted,          \* paths fs.stat was called on by the walk
    readFailed,       \* directories whose readdir rejected in this call
    examined,         \* entries the loop over a listing got to (line 310)
    \* ---- process listing ----
    csvOutput,        \* stdout of the tasklist command
    ppc,              \* position of the getRunningProcesses call
    rows,             \* parseWindowsCSV(output)
    processes,        \* value getRunningProcesses resolves to
    \* ---- the two commands as mounted components ----
    command,          \* the mounted command: "pm", "fsm" or "off"
    showSystemProcesses, \* preferences.showSystemProcesses
    mounted,          \* the effect of ProcessManager ran: the interval is set
    processList,      \* ProcessManager state "processes" (useState, line 153)
    isLoading,        \* ProcessManager state isLoading (useState, line 154)
    loads,            \* the loadProcesses calls, in the order they started
    kh,               \* the handleKillProcess / handleKillAllByName call
    selectedFiles,    \* FileSearchManager state: a Set, in insertion order
    fh                \* the handleDeleteFile / handleBulkDelete call

searchVars == <<entryName, unreadable, statFails, query, searchPaths,
                maxResults, includeHidden, excludePatterns, useEverything,
                pc, args, files, pathIdx, stack, result, isSearching,
                esFailed, listed, statted, readFailed, examined>>
csvVars == <<csvOutput, ppc, rows, processes>>
uiVars == <<command, showSystemProcesses, mounted, processList, isLoading,
            loads, kh, selectedFiles, fh>>
vars == <<searchVars, csvVars, uiVars>>

\* ------------------------------------------------------------------------
\* Bounds
\* ------------------------------------------------------------------------
MaxResultsBound == 3
MaxUnreadable == 1
MaxEsLines == 1
MaxLen == 4

\* ------------------------------------------------------------------------
\* Text helpers (String.prototype methods used by the code)
\* ------------------------------------------------------------------------
Min(a, b) == IF a <= b THEN a ELSE b

ToLowerChar(c) ==
    IF c = "A" THEN "a" ELSE IF c = "N" THEN "n" ELSE c

ToLowerCase(s) == [i \in 1..Len(s) |-> ToLowerChar(s[i])]

StartsWith(s, p) ==
    /\ Len(p) <= Len(s)
    /\ SubSeq(s, 1, Len(p)) = p

Includes(s, p) ==
    \E i \in 0..(Len(s) - Len(p)) : SubSeq(s, i + 1, i + Len(p)) = p

IsSpace(c) == c \in {" ", "\r", "\n"}

RECURSIVE TrimStart(_)
TrimStart(s) ==
    IF s = <<>> THEN <<>>
    ELSE IF IsSpace(Head(s)) THEN TrimStart(Tail(s)) ELSE s

RECURSIVE TrimEnd(_)
TrimEnd(s) ==
    IF s = <<>> THEN <<>>
    ELSE IF IsSpace(s[Len(s)]) THEN TrimEnd(SubSeq(s, 1, Len(s) - 1)) ELSE s

Trim(s) == TrimEnd(TrimStart(s))

\* Array.prototype.slice(0, n) for n >= 0
Slice0(s, n) == SubSeq(s, 1, Min(n, Len(s)))

\* ------------------------------------------------------------------------
\* The directory forest on disk.  Two search roots (1 and 11).  Under root
\* 1 a chain of directories 2/4/6/7/8/9 reaches depth 6, with a file at
\* depth 7.  readdir returns the children in the order given.
\* ------------------------------------------------------------------------
Nodes == 1..14
Roots == {1, 11}
Dirs == {1, 2, 4, 6, 7, 8, 9, 11, 12}

Children(n) ==
    CASE n = 1  -> <<2, 3>>
      [] n = 2  -> <<4, 5>>
      [] n = 4  -> <<6>>
      [] n = 6  -> <<7>>
      [] n = 7  -> <<8>>
      [] n = 8  -> <<9>>
      [] n = 9  -> <<10>>
      [] n = 11 -> <<12, 13>>
      [] n = 12 -> <<14>>
      [] OTHER  -> <<>>

IsDirectoryEntry(n) == n \in Dirs

Range(s) == {s[i] : i \in 1..Len(s)}

Parent(n) == CHOOSE p \in Dirs : n \in Range(Children(p))

\* Number of path components of n below its root: the root is at depth 0.
RECURSIVE PathDepth(_)
PathDepth(n) == IF n \in Roots THEN 0 ELSE 1 + PathDepth(Parent(n))

DepthTable == [n \in Nodes |-> PathDepth(n)]

DepthOf(n) == DepthTable[n]

\* Proper ancestors of n, the root included.
RECURSIVE PathAncestors(_)
PathAncestors(n) ==
    IF n \in Roots THEN {} ELSE {Parent(n)} \cup PathAncestors(Parent(n))

AncestorTable == [n \in Nodes |-> PathAncestors(n)]

Ancestors(n) == AncestorTable[n]

RootOf(n) == IF n \in Roots THEN n ELSE CHOOSE r \in Roots : r \in Ancestors(n)

\* Names an entry can have: plain, matching, matching in upper case,
\* hidden and matching, excluded and matching.
NamePlain == <<"x">>
NameMatch == <<"a">>
NameUpper == <<"A">>
NameHidden == <<".", "a">>
NameExcluded == <<"n", "a">>

NameChoices(n) ==
    CASE n = 2  -> {NamePlain, NameMatch, NameHidden, NameExcluded}
      [] n = 3  -> {NameMatch, NameHidden}
      [] n = 5  -> {NameMatch, NameHidden}
      [] n = 12 -> {NamePlain, NameMatch, NameExcluded}
      [] n \in {8, 9, 10, 13} -> {NameMatch}
      [] n = 14 -> {NameUpper}
      [] OTHER -> {NamePlain}

QueryChoices == {<<"A">>, <<" ">>}
PatternChoices == {<<>>, << <<"n">> >>}
SearchPathChoices == {<<1, 11>>, <<11, 1>>, <<11>>, <<>>}
UnreadableCandidates == {2, 11, 12}
StatFailChoices == {{}, {3}}

\* ------------------------------------------------------------------------
\* searchDirectory: the recursion ceiling and the result cap
\* ------------------------------------------------------------------------
MaxDepth == 5

CapReached(results, max) == Len(results) >= max

\* Variant: the result cap is not tested on entry of searchDirectory.
SearchDirectoryGuardDepthOnly(depth, results, max) == depth > MaxDepth

\* Variant: the ceiling is tested one level too late.
SearchDirectoryGuardLate(depth, results, max) ==
    depth > MaxDepth + 1 \/ CapReached(results, max)

\* line 302: if (depth > 5 || results.length >= maxResults) return
SearchDirectoryGuard(depth, results, max) ==
    depth > MaxDepth \/ CapReached(results, max)

IsHiddenName(nm) == StartsWith(nm, <<".">>)

\* Variant: a pattern excludes only the entry of exactly that name.
IsExcludedExact(nm, patterns) ==
    \E i \in 1..Len(patterns) : nm = patterns[i]

\* line 317: excludePatterns.some(pattern => entry.name.includes(pattern))
IsExcluded(nm, patterns) ==
    \E i \in 1..Len(patterns) : Includes(nm, patterns[i])

\* line 320: entry.name.toLowerCase().includes(query)
NameMatches(nm, q) == Includes(ToLowerCase(nm), q)

\* Variant: hidden entries are not skipped.
SkipEntryKeepHidden(nm, inclHidden, patterns) ==
    IsExcluded(nm, patterns)

\* lines 314 and 317: the entry is skipped
SkipEntry(nm, inclHidden, patterns) ==
    \/ IsHiddenName(nm) /\ ~inclHidden
    \/ IsExcluded(nm, patterns)

\* Variant: hidden directories are entered too.
RecursesIntoHidden(n, nm) == IsDirectoryEntry(n)

\* line 338: entry.isDirectory() && !isHidden
Recurses(n, nm) == IsDirectoryEntry(n) /\ ~IsHiddenName(nm)

\* lines 323-331: the record pushed for a matching entry
FileItem(n, nm) ==
    [path |-> n, name |-> nm,
     type |-> IF IsDirectoryEntry(n) THEN "directory" ELSE "file",
     isHidden |-> IsHiddenName(nm)]

Frame(d, dp, st, es) == [dir |-> d, depth |-> dp, state |-> st, entries |-> es]

Pop(s) == SubSeq(s, 1, Len(s) - 1)

Top(s) == s[Len(s)]

\* Variant: the rejection is not caught in searchDirectory and unwinds to the
\* catch of searchFileSystem (lines 285-287).
ReaddirFailedUncaught(s) == <<>>

\* lines 342-344: a rejected readdir is caught inside searchDirectory, which
\* then returns normally to its caller
ReaddirFailed(s) == Pop(s)

\* Variant: the result limit is passed on off by one.
SearchFileSystemArgsOffByOne(q) ==
    [query |-> ToLowerCase(q), searchPaths |-> searchPaths,
     maxResults |-> maxResults + 1, includeHidden |-> includeHidden,
     excludePatterns |-> excludePatterns]

\* lines 438 and 441: the arguments searchFiles passes to searchFileSystem;
\* line 279 lower-cases the query
SearchFileSystemArgs(q) ==
    [query |-> ToLowerCase(q), searchPaths |-> searchPaths,
     maxResults |-> maxResults, includeHidden |-> includeHidden,
     excludePatterns |-> excludePatterns]

NoArgs ==
    [query |-> <<>>, searchPaths |-> <<>>, maxResults |-> 0,
     includeHidden |-> FALSE, excludePatterns |-> <<>>]

\* ------------------------------------------------------------------------
\* searchWithEverything: the rows es.exe prints.  A row is a path and the
\* number of tab-separated parts of its line.
\* ------------------------------------------------------------------------
EsLineChoices ==
    {[path |-> 3, parts |-> 3], [path |-> 12, parts |-> 3],
     [path |-> 3, parts |-> 2]}

EsOutputs ==
    UNION {[1..k -> EsLineChoices] : k \in 0..MaxEsLines}

\* fs.stat(path).isDirectory(), false when stat rejects (lines 262-269)
isDirectory(n) == n \notin statFails /\ IsDirectoryEntry(n)

\* lines 243-251
EverythingItem(line) ==
    [path |-> line.path, name |-> entryName[line.path],
     type |-> IF isDirectory(line.path) THEN "directory" ELSE "file",
     isHidden |-> IsHiddenName(entryName[line.path])]

\* lines 236-253: rows with fewer than three parts are skipped
RECURSIVE EverythingItems(_)
EverythingItems(lines) ==
    IF lines = <<>> THEN <<>>
    ELSE IF Head(lines).parts >= 3
         THEN <<EverythingItem(Head(lines))>> \o EverythingItems(Tail(lines))
         ELSE EverythingItems(Tail(lines))

\* ------------------------------------------------------------------------
\* Initial states
\* ------------------------------------------------------------------------
\* no kill handler is running: inv counts the calls made so far, answer is
\* what the dialog of the last call returned
NoKill ==
    [pc |-> "idle", inv |-> 0, kind |-> "none", ident |-> <<>>,
     answer |-> "none", error |-> [text |-> "", ident |-> <<>>, error |-> ""],
     commands |-> <<>>, toasts |-> <<>>, load |-> 0]

\* no delete handler is running
NoDelete ==
    [pc |-> "idle", inv |-> 0, kind |-> "none", file |-> 0,
     selected |-> <<>>, filesToDelete |-> <<>>, trashed |-> <<>>,
     answer |-> "none", successCount |-> 0, errorCount |-> 0,
     toasts |-> <<>>]

\* lines 153-154 of the process manager: useState([]) and useState(true);
\* line 398 of the file search: useState(new Set())
InitUiState ==
    /\ mounted = FALSE
    /\ processList = <<>>
    /\ isLoading = TRUE
    /\ loads = <<>>
    /\ kh = NoKill
    /\ selectedFiles = <<>>
    /\ fh = NoDelete

InitUiOff ==
    /\ command = "off"
    /\ showSystemProcesses = FALSE
    /\ InitUiState

InitCsvIdle ==
    /\ csvOutput = <<>>
    /\ ppc = "off"
    /\ rows = <<>>
    /\ processes = <<>>

InitSearchCall ==
    /\ pc = "idle"
    /\ args = NoArgs
    /\ files = <<>>
    /\ pathIdx = 1
    /\ stack = <<>>
    /\ result = <<>>
    /\ isSearching = FALSE
    /\ esFailed = FALSE
    /\ listed = {}
    /\ statted = {}
    /\ readFailed = {}
    /\ examined = {}

InitSearch ==
    /\ \E n2 \in NameChoices(2), n3 \in NameChoices(3), n5 \in NameChoices(5),
          n12 \in NameChoices(12) :
          entryName = [n \in Nodes |->
                          CASE n = 2  -> n2
                            [] n = 3  -> n3
                            [] n = 5  -> n5
                            [] n = 12 -> n12
                            [] OTHER  -> CHOOSE nm \in NameChoices(n) : TRUE]
    /\ unreadable \in {u \in SUBSET UnreadableCandidates :
                          Cardinality(u) <= MaxUnreadable}
    /\ statFails \in StatFailChoices
    /\ query = <<>>
    /\ searchPaths \in SearchPathChoices
    /\ maxResults \in 0..MaxResultsBound
    /\ includeHidden \in BOOLEAN
    /\ excludePatterns \in PatternChoices
    /\ useEverything \in BOOLEAN
    /\ InitSearchCall
    /\ InitCsvIdle
    /\ InitUiOff

\* ------------------------------------------------------------------------
\* searchFiles
\* ------------------------------------------------------------------------
inputsUnchanged ==
    UNCHANGED <<entryName, unreadable, statFails, searchPaths,
                maxResults, includeHidden, excludePatterns, useEverything>>

\* lines 421-442, called with the debounced search text: a blank query
\* returns at once; otherwise isSearching is set and either es.exe or the
\* walk is started
SearchFilesBegin ==
    /\ pc = "idle"
    /\ \E q \in QueryChoices :
          /\ query' = q
          /\ IF Trim(q) = <<>>
             THEN /\ pc' = "done"
                  /\ result' = <<>>
                  /\ UNCHANGED <<args, files, pathIdx, isSearching>>
             ELSE /\ isSearching' = TRUE
                  /\ IF useEverything
                     THEN /\ pc' = "everything"
                          /\ UNCHANGED <<args, files, pathIdx>>
                     ELSE /\ pc' = "fs_loop"
                          /\ args' = SearchFileSystemArgs(q)
                          /\ files' = <<>>
                          /\ pathIdx' = 1
                  /\ UNCHANGED result
    /\ UNCHANGED <<stack, esFailed, listed, statted, readFailed, examined>>
    /\ inputsUnchanged
    /\ UNCHANGED <<csvVars, uiVars>>

\* lines 228-260 and 435, 444-448.  A failed subprocess is caught inside
\* searchWithEverything (line 256), which returns []; it never rejects, so
\* the catch of lines 436-439 in searchFiles is not reachable.
SearchWithEverything ==
    /\ pc = "everything"
    /\ \/ /\ esFailed' = TRUE
          /\ result' = <<>>
       \/ \E out \in EsOutputs :
             /\ esFailed' = FALSE
             /\ result' = EverythingItems(out)
    /\ pc' = "done"
    /\ isSearching' = FALSE
    /\ UNCHANGED <<args, files, pathIdx, stack, listed, statted, readFailed,
                   examined>>
    /\ inputsUnchanged
    /\ UNCHANGED <<query, csvVars, uiVars>>

\* lines 281-283: next iteration of the loop over searchPaths
SearchFileSystemLoop ==
    /\ pc = "fs_loop"
    /\ IF pathIdx <= Len(args.searchPaths)
       THEN /\ stack' = <<Frame(args.searchPaths[pathIdx], 0, "call", <<>>)>>
            /\ pc' = "fs_walk"
       ELSE /\ pc' = "fs_return"
            /\ UNCHANGED stack
    /\ UNCHANGED <<args, files, pathIdx, result, isSearching, esFailed,
                   listed, statted, readFailed, examined>>
    /\ inputsUnchanged
    /\ UNCHANGED <<query, csvVars, uiVars>>

\* lines 302-305 and 342-344: entry of one searchDirectory activation
SearchDirectoryEnter ==
    /\ pc = "fs_walk"
    /\ stack # <<>>
    /\ Top(stack).state = "call"
    /\ LET f == Top(stack) IN
       IF SearchDirectoryGuard(f.depth, files, args.maxResults)
       THEN /\ stack' = Pop(stack)
            /\ UNCHANGED <<listed, readFailed>>
       ELSE /\ listed' = listed \cup {f.dir}
            /\ IF f.dir \in unreadable
               THEN /\ readFailed' = readFailed \cup {f.dir}
                    /\ stack' = ReaddirFailed(stack)
               ELSE /\ stack' = Pop(stack) \o
                          <<Frame(f.dir, f.depth, "loop", Children(f.dir))>>
                    /\ UNCHANGED readFailed
    /\ UNCHANGED <<pc, args, files, pathIdx, result, isSearching, esFailed,
                   statted, examined>>
    /\ inputsUnchanged
    /\ UNCHANGED <<query, csvVars, uiVars>>

\* lines 307-341: one iteration of the loop over the entries, or its end
SearchDirectoryEntry ==
    /\ pc = "fs_walk"
    /\ stack # <<>>
    /\ Top(stack).state = "loop"
    /\ LET f == Top(stack) IN
       IF f.entries = <<>> \/ CapReached(files, args.maxResults)
       THEN /\ stack' = Pop(stack)
            /\ UNCHANGED <<files, statted, examined>>
       ELSE LET e == Head(f.entries)
                nm == entryName[e]
                rest == Frame(f.dir, f.depth, "loop", Tail(f.entries))
            IN  /\ examined' = examined \cup {e}
                /\ IF SkipEntry(nm, args.includeHidden, args.excludePatterns)
                   THEN /\ stack' = Pop(stack) \o <<rest>>
                        /\ UNCHANGED <<files, statted>>
                   ELSE /\ IF NameMatches(nm, args.query)
                           THEN /\ statted' = statted \cup {e}
                                /\ files' = IF e \in statFails
                                            THEN files
                                            ELSE Append(files, FileItem(e, nm))
                           ELSE UNCHANGED <<files, statted>>
                        /\ stack' = IF Recurses(e, nm)
                                    THEN Pop(stack) \o
                                         <<rest,
                                           Frame(e, f.depth + 1, "call", <<>>)>>
                                    ELSE Pop(stack) \o <<rest>>
    /\ UNCHANGED <<pc, args, pathIdx, result, isSearching, esFailed, listed,
                   readFailed>>
    /\ inputsUnchanged
    /\ UNCHANGED <<query, csvVars, uiVars>>

\* Variant: the loop does not advance to the next search path.
NextPathIdxStuck(i) == i

\* line 281: for (const searchPath of searchPaths) takes the next element
NextPathIdx(i) == i + 1

\* line 284: after searchDirectory returned for one search path
SearchFileSystemAfter ==
    /\ pc = "fs_walk"
    /\ stack = <<>>
    /\ IF CapReached(files, args.maxResults)
       THEN /\ pc' = "fs_return"
            /\ UNCHANGED pathIdx
       ELSE /\ pc' = "fs_loop"
            /\ pathIdx' = NextPathIdx(pathIdx)
    /\ UNCHANGED <<args, files, stack, result, isSearching, esFailed, listed,
                   statted, readFailed, examined>>
    /\ inputsUnchanged
    /\ UNCHANGED <<query, csvVars, uiVars>>

\* line 290 and lines 444-448
SearchFileSystemReturn ==
    /\ pc = "fs_return"
    /\ result' = Slice0(files, args.maxResults)
    /\ pc' = "done"
    /\ isSearching' = FALSE
    /\ UNCHANGED <<args, files, pathIdx, stack, esFailed, listed, statted,
                   readFailed, examined>>
    /\ inputsUnchanged
    /\ UNCHANGED <<query, csvVars, uiVars>>

NextSearch ==
    \/ SearchFilesBegin
    \/ SearchWithEverything
    \/ SearchFileSystemLoop
    \/ SearchDirectoryEnter
    \/ SearchDirectoryEntry
    \/ SearchFileSystemAfter
    \/ SearchFileSystemReturn

SpecSearch == InitSearch /\ [][NextSearch]_vars

\* A started call is run to its end by the event loop: every await of the
\* walk settles (fs.readdir and fs.stat return or reject).
SpecSearchFair == SpecSearch /\ WF_vars(NextSearch)

TypeOKSearch ==
    /\ pc \in {"idle", "everything", "fs_loop", "fs_walk", "fs_return", "done"}
    /\ Len(files) <= 14

\* ------------------------------------------------------------------------
\* parseWindowsCSV (process manager, lines 74-100)
\* ------------------------------------------------------------------------
QUOTE == "\""
COMMA == ","
LF == "\n"
CR == "\r"

\* split(/\r?\n/): the text is cut at every "\n", a "\r" directly before it
\* belonging to the separator
RECURSIVE SplitLinesFrom(_, _)
SplitLinesFrom(s, cur) ==
    IF s = <<>> THEN <<cur>>
    ELSE IF Head(s) = LF THEN <<cur>> \o SplitLinesFrom(Tail(s), <<>>)
    ELSE IF Head(s) = CR /\ Len(s) >= 2 /\ s[2] = LF
         THEN <<cur>> \o SplitLinesFrom(Tail(Tail(s)), <<>>)
    ELSE SplitLinesFrom(Tail(s), Append(cur, Head(s)))

SplitLines(s) == SplitLinesFrom(s, <<>>)

\* Variant: a comma always separates, quoted or not.
IsSeparatorAnywhere(char, inQuotes) == char = COMMA

\* line 88: char === ',' && !inQuotes
IsSeparator(char, inQuotes) == char = COMMA /\ ~inQuotes

\* Variant: an empty field is not pushed.
PushFieldSkipEmpty(parts, current) ==
    IF Trim(current) = <<>> THEN parts ELSE Append(parts, Trim(current))

\* lines 89 and 95: parts.push(current.trim())
PushField(parts, current) == Append(parts, Trim(current))

\* lines 84-94: the loop over the characters of one line, from index i on
RECURSIVE ScanChars(_, _, _, _, _)
ScanChars(line, i, parts, current, inQuotes) ==
    IF i > Len(line)
    THEN [parts |-> parts, current |-> current, inQuotes |-> inQuotes]
    ELSE IF line[i] = QUOTE
         THEN ScanChars(line, i + 1, parts, current, ~inQuotes)
    ELSE IF IsSeparator(line[i], inQuotes)
         THEN ScanChars(line, i + 1, PushField(parts, current), <<>>, inQuotes)
    ELSE ScanChars(line, i + 1, parts, Append(current, line[i]), inQuotes)

\* Variant: the quote state left by the previous line is taken over.
LineStartInQuotesCarried(carried) == carried

\* line 81: let inQuotes = false, inside the callback that map runs once
\* per line; carried is the state the scan of the previous line ended in
LineStartInQuotes(carried) == FALSE

\* lines 79-94: the scan of one line
ScanLine(line, carried) ==
    ScanChars(line, 1, <<>>, <<>>, LineStartInQuotes(carried))

\* lines 78-98: the fields of one line
ParseLine(line, carried) ==
    LET end == ScanLine(line, carried)
    IN  PushField(end.parts, end.current)

\* Variant: a row is kept whenever it has a field.
KeepRowAny(parts) == Len(parts) > 0

\* line 99: parts.length > 0 && parts[0]
KeepRow(parts) == Len(parts) > 0 /\ parts[1] # <<>>

\* lines 77-99: map over the lines in order, then filter
RECURSIVE ParseLinesFrom(_, _)
ParseLinesFrom(lines, carried) ==
    IF lines = <<>> THEN <<>>
    ELSE LET parts == ParseLine(Head(lines), carried)
             next == ScanLine(Head(lines), carried).inQuotes
         IN  IF KeepRow(parts)
             THEN <<parts>> \o ParseLinesFrom(Tail(lines), next)
             ELSE ParseLinesFrom(Tail(lines), next)

ParseLines(lines) == ParseLinesFrom(lines, FALSE)

\* lines 74-100
parseWindowsCSV(text) == ParseLines(SplitLines(Trim(text)))

\* ------------------------------------------------------------------------
\* getRunningProcesses (lines 103-120)
\* ------------------------------------------------------------------------
\* row[i] || "" with a zero-based i: a missing field reads as ""
FieldOr(row, i) == IF i + 1 <= Len(row) THEN row[i + 1] ELSE <<>>

\* lines 108-115
WindowsProcess(row) ==
    [name |-> FieldOr(row, 0), pid |-> FieldOr(row, 1),
     sessionName |-> FieldOr(row, 2), sessionNumber |-> FieldOr(row, 3),
     memUsage |-> FieldOr(row, 4), status |-> "Running"]

\* Variant: only the name is required.
KeepProcessNameOnly(p) == p.name # <<>>

\* line 115: process.name && process.pid
KeepProcess(p) == p.name # <<>> /\ p.pid # <<>>

RECURSIVE ProcessesOf(_)
ProcessesOf(rs) ==
    IF rs = <<>> THEN <<>>
    ELSE LET p == WindowsProcess(Head(rs))
         IN  IF KeepProcess(p)
             THEN <<p>> \o ProcessesOf(Tail(rs))
             ELSE ProcessesOf(Tail(rs))

\* ------------------------------------------------------------------------
\* The texts the tasklist command can print: every text of at most MaxLen
\* characters, lines of one to three fields, two such lines separated by
\* "\n" or "\r\n", and the lines "x,y",c,d.
\* ------------------------------------------------------------------------
Alphabet == {"a", " ", COMMA, QUOTE, LF, CR}

ShortTexts == UNION {[1..k -> Alphabet] : k \in 0..MaxLen}

FieldChoices ==
    {<<"a">>, <<>>, <<" ", "b">>, <<QUOTE, "a", COMMA, "b", QUOTE>>, <<QUOTE, "a">>}

RECURSIVE JoinFields(_)
JoinFields(fs) ==
    IF Len(fs) = 0 THEN <<>>
    ELSE IF Len(fs) = 1 THEN fs[1]
    ELSE fs[1] \o <<COMMA>> \o JoinFields(Tail(fs))

LinesOfFields(counts) ==
    UNION {{JoinFields(fs) : fs \in [1..k -> FieldChoices]} : k \in counts}

TwoLineTexts ==
    {l1 \o sep \o l2 : l1 \in LinesOfFields(1..2), l2 \in LinesOfFields(1..2),
                       sep \in {<<LF>>, <<CR, LF>>}}

\* Field contents without quote, comma or line break and without blanks at
\* either end
TokenChoices == {<<>>, <<"a">>, <<"a", " ", "b">>}

QuotedCommaLine(x, y, c, d) ==
    <<QUOTE>> \o x \o <<COMMA>> \o y \o <<QUOTE>> \o <<COMMA>> \o c \o <<COMMA>> \o d

QuotedCommaTexts ==
    {QuotedCommaLine(x, y, c, d) : x \in TokenChoices, y \in TokenChoices,
                                   c \in TokenChoices, d \in TokenChoices}

CsvTexts == ShortTexts \cup LinesOfFields(1..3) \cup TwoLineTexts \cup QuotedCommaTexts

InitSearchIdle ==
    /\ entryName = [n \in Nodes |-> CHOOSE nm \in NameChoices(n) : TRUE]
    /\ unreadable = {}
    /\ statFails = {}
    /\ query = <<>>
    /\ searchPaths = <<>>
    /\ maxResults = 0
    /\ includeHidden = FALSE
    /\ excludePatterns = <<>>
    /\ useEverything = FALSE
    /\ InitSearchCall

InitCsv ==
    /\ csvOutput \in CsvTexts
    /\ ppc = "idle"
    /\ rows = <<>>
    /\ processes = <<>>
    /\ InitSearchIdle
    /\ InitUiOff

\* parseWindowsCSV applied to a text
ParseWindowsCSV ==
    /\ ppc = "idle"
    /\ rows' = parseWindowsCSV(csvOutput)
    /\ ppc' = "parsed"
    /\ UNCHANGED <<csvOutput, processes>>
    /\ UNCHANGED <<searchVars, uiVars>>

\* lines 104-115 with lines 49-59: the command printed csvOutput;
\* runWindowsCommand returns stdout.trim()
GetRunningProcesses ==
    /\ ppc = "idle"
    /\ LET output == Trim(csvOutput)
           parsed == parseWindowsCSV(output)
       IN  /\ rows' = parsed
           /\ processes' = ProcessesOf(parsed)
    /\ ppc' = "resolved"
    /\ UNCHANGED csvOutput
    /\ UNCHANGED <<searchVars, uiVars>>

\* lines 60-71 and 116-119: the command failed and the call rejects
GetRunningProcessesFails ==
    /\ ppc = "idle"
    /\ ppc' = "rejected"
    /\ UNCHANGED <<csvOutput, rows, processes>>
    /\ UNCHANGED <<searchVars, uiVars>>

NextCsv ==
    \/ ParseWindowsCSV
    \/ GetRunningProcesses
    \/ GetRunningProcessesFails

SpecCsv == InitCsv /\ [][NextCsv]_vars

\* ------------------------------------------------------------------------
\* ProcessManager (process manager, lines 153-268): the list state, the
\* loadProcesses calls in flight and the two kill handlers
\* ------------------------------------------------------------------------
MaxLoads == 3
MaxKills == 2

ServicesName == <<"S", "e", "r", "v", "i", "c", "e", "s">>

\* What tasklist /fo csv /nh can print: a service and a user process, or
\* another user process
OutUser == <<"a", COMMA, "1", COMMA, "C">>
OutMixed == <<"s", COMMA, "2", COMMA>> \o ServicesName \o <<LF>> \o OutUser
OutOther == <<"b", COMMA, "3", COMMA, "C">>
TasklistOutputs == {OutMixed, OutOther}

\* lines 167-169
FilterProcesses(processData, show) ==
    IF show THEN processData
    ELSE SelectSeq(processData, LAMBDA p : p.sessionName # ServicesName)

\* a loadProcesses call that awaits the listing; inv is the kill handler
\* call that started it, 0 for the effect, the interval and Refresh List
LoadRecord(inv) ==
    [inv |-> inv, state |-> "listing", failed |-> FALSE, list |-> <<>>]

\* the loadProcesses calls that have not run their finally block
InFlight == {i \in 1..Len(loads) : loads[i].state # "done"}

\* Variant: a call starts only when no other call is in flight.
LoadProcessesRunsIfIdle(inFlight) == inFlight = {}

\* lines 161-163 and 189: loadProcesses, and the interval that calls it,
\* start the listing whatever calls are in flight
LoadProcessesRuns(inFlight) == TRUE

\* a kill handler that may still call loadProcesses (room kept under MaxLoads)
Reserved == IF kh.pc \in {"confirm", "taskkill", "toastOk"} THEN 1 ELSE 0

\* lines 161-164: setIsLoading(true), then the listing is awaited
StartLoad(inv) ==
    /\ LoadProcessesRuns(InFlight)
    /\ isLoading' = TRUE
    /\ loads' = Append(loads, LoadRecord(inv))

pmOthers == <<searchVars, csvVars, command, showSystemProcesses,
              selectedFiles, fh>>

\* lines 186-190: the effect runs after the first render
PmMount ==
    /\ command = "pm"
    /\ ~mounted
    /\ mounted' = TRUE
    /\ StartLoad(0)
    /\ UNCHANGED <<processList, kh>>
    /\ UNCHANGED pmOthers

\* line 189: the interval fires
TimerTick ==
    /\ command = "pm"
    /\ mounted
    /\ Len(loads) + Reserved < MaxLoads
    /\ StartLoad(0)
    /\ UNCHANGED <<mounted, processList, kh>>
    /\ UNCHANGED pmOthers

\* the Refresh List action (onAction: loadProcesses); no action can be
\* chosen while a confirmation dialog is open
ManualRefresh ==
    /\ command = "pm"
    /\ mounted
    /\ kh.pc # "confirm"
    /\ Len(loads) + Reserved < MaxLoads
    /\ StartLoad(0)
    /\ UNCHANGED <<mounted, processList, kh>>
    /\ UNCHANGED pmOthers

\* lines 164-171 and 180-182: getRunningProcesses resolved
LoadResolves ==
    /\ command = "pm"
    /\ \E i \in InFlight, out \in TasklistOutputs :
          /\ loads[i].state = "listing"
          /\ LET processData == ProcessesOf(parseWindowsCSV(Trim(out)))
                 filteredProcesses ==
                     FilterProcesses(processData, showSystemProcesses)
             IN  /\ processList' = filteredProcesses
                 /\ loads' = [loads EXCEPT ![i] =
                                 [@ EXCEPT !.state = "done",
                                           !.list = filteredProcesses]]
          /\ isLoading' = FALSE
    /\ UNCHANGED <<mounted, kh>>
    /\ UNCHANGED pmOthers

\* lines 172-178: getRunningProcesses rejected; the toast is awaited
LoadRejects ==
    /\ command = "pm"
    /\ \E i \in InFlight :
          /\ loads[i].state = "listing"
          /\ loads' = [loads EXCEPT ![i] =
                          [@ EXCEPT !.state = "toast", !.failed = TRUE]]
    /\ UNCHANGED <<mounted, processList, isLoading, kh>>
    /\ UNCHANGED pmOthers

\* lines 179-182: after the toast, setProcesses([]) and the finally block
LoadFailureShown ==
    /\ command = "pm"
    /\ \E i \in InFlight :
          /\ loads[i].state = "toast"
          /\ loads' = [loads EXCEPT ![i] = [@ EXCEPT !.state = "done"]]
    /\ processList' = <<>>
    /\ isLoading' = FALSE
    /\ UNCHANGED <<mounted, kh>>
    /\ UNCHANGED pmOthers

\* lines 124 and 132: the command handed to runWindowsCommand
KillCommand(kind, ident) ==
    [exe |-> "taskkill", flag |-> IF kind = "pid" THEN "/PID" ELSE "/IM",
     ident |-> ident]

\* how the taskkill subprocess can fail: not found on the path, access
\* denied, killed at the 10 s timeout, a non-zero exit (no such process)
FailureCauses == {"ENOENT", "EACCES", "timeout", "exit"}

\* lines 60-71: the message of the Error runWindowsCommand throws
RunWindowsCommandError(cause) ==
    IF cause = "ENOENT"
    THEN "Command not found. Please ensure Windows is properly configured."
    ELSE IF cause = "EACCES"
    THEN "Access denied. Administrator privileges may be required."
    ELSE "Command failed: Error"

NoError == [text |-> "", ident |-> <<>>, error |-> ""]

\* Variant: the message does not name the process.
KillErrorAnonymous(ident, error) ==
    [text |-> "Failed to kill process", ident |-> <<>>, error |-> error]

\* lines 126 and 134: `Failed to kill process ${pid}: ${error}`
KillError(ident, error) ==
    [text |-> "Failed to kill process", ident |-> ident, error |-> error]

Toast(style, title, message) ==
    [style |-> style, title |-> title, message |-> message]

\* Variant: the handler goes on whatever the dialog returned.
KillProceedsAlways(confirmed) == TRUE

\* lines 215 and 249: if (!confirmed) return
KillProceeds(confirmed) == confirmed

KillInvoked(kind, ident) ==
    [NoKill EXCEPT !.pc = "confirm", !.inv = kh.inv + 1, !.kind = kind,
                   !.ident = ident]

\* the handler returned: its locals are gone
KillEnded == [NoKill EXCEPT !.pc = "ended", !.inv = kh.inv, !.answer = kh.answer]

khFrame ==
    /\ UNCHANGED <<mounted, processList, isLoading, loads>>
    /\ UNCHANGED pmOthers

\* lines 205-213: the Kill Process action of a list item; the dialog opens
HandleKillProcess ==
    /\ command = "pm"
    /\ kh.pc \in {"idle", "ended"}
    /\ kh.inv < MaxKills
    /\ Len(loads) < MaxLoads
    /\ \E j \in 1..Len(processList) :
          kh' = KillInvoked("pid", processList[j].pid)
    /\ khFrame

\* lines 237-247: the Kill All action of a list item; the dialog opens
HandleKillAllByName ==
    /\ command = "pm"
    /\ kh.pc \in {"idle", "ended"}
    /\ kh.inv < MaxKills
    /\ Len(loads) < MaxLoads
    /\ \E j \in 1..Len(processList) :
          kh' = KillInvoked("name", processList[j].name)
    /\ khFrame

\* lines 215-218 and 249-252: the dialog returned; on true the taskkill
\* command is issued
KillAnswered ==
    /\ kh.pc = "confirm"
    /\ \E confirmed \in BOOLEAN :
          kh' = IF KillProceeds(confirmed)
                THEN [kh EXCEPT !.pc = "taskkill",
                                !.answer = IF confirmed THEN "yes" ELSE "no",
                                !.commands =
                                    Append(@, KillCommand(kh.kind, kh.ident))]
                ELSE [KillEnded EXCEPT !.answer = "no"]
    /\ khFrame

\* lines 218-223 and 252-257: the command succeeded; the success toast
KillSucceeds ==
    /\ kh.pc = "taskkill"
    /\ kh' = [kh EXCEPT !.pc = "toastOk",
                        !.toasts = Append(@,
                            Toast("Success",
                                  IF kh.kind = "pid" THEN "Process killed"
                                  ELSE "Processes killed",
                                  [text |-> "terminated", ident |-> kh.ident,
                                   error |-> ""]))]
    /\ khFrame

\* lines 60-71, 125-127 / 133-135 and 227-233 / 261-267: the command failed,
\* killProcess rejects with its Error, the handler catches it and shows the
\* failure toast with error.message
KillFails ==
    /\ kh.pc = "taskkill"
    /\ \E cause \in FailureCauses :
          LET error == KillError(kh.ident, RunWindowsCommandError(cause))
          IN  kh' = [kh EXCEPT !.pc = "toastFail",
                               !.error = error,
                               !.toasts = Append(@,
                                   Toast("Failure",
                                         IF kh.kind = "pid"
                                         THEN "Failed to kill process"
                                         ELSE "Failed to kill processes",
                                         error))]
    /\ khFrame

\* lines 225-226 and 259-260: await loadProcesses()
KillRefreshStarts ==
    /\ kh.pc = "toastOk"
    /\ StartLoad(kh.inv)
    /\ kh' = [kh EXCEPT !.pc = "refresh", !.load = Len(loads) + 1]
    /\ UNCHANGED <<mounted, processList>>
    /\ UNCHANGED pmOthers

\* the awaited loadProcesses call returned and the handler ends
KillRefreshDone ==
    /\ kh.pc = "refresh"
    /\ loads[kh.load].state = "done"
    /\ kh' = KillEnded
    /\ khFrame

\* lines 227-233: the failure toast was shown and the handler ends
KillFailureShown ==
    /\ kh.pc = "toastFail"
    /\ kh' = KillEnded
    /\ khFrame

NextPm ==
    \/ PmMount
    \/ TimerTick
    \/ ManualRefresh
    \/ LoadResolves
    \/ LoadRejects
    \/ LoadFailureShown
    \/ HandleKillProcess
    \/ HandleKillAllByName
    \/ KillAnswered
    \/ KillSucceeds
    \/ KillFails
    \/ KillRefreshStarts
    \/ KillRefreshDone
    \/ KillFailureShown

\* ------------------------------------------------------------------------
\* FileSearchManager (file search, lines 491-566): the selection and the
\* two delete handlers
\* ------------------------------------------------------------------------
MaxDeletes == 2

\* the paths of the listed files that can be selected or deleted
SelectablePaths == {3, 13, 14}

InSeq(x, s) == \E i \in 1..Len(s) : s[i] = x

\* lines 556-566: a selected path is removed, another one is added last
toggleFileSelection(prev, filePath) ==
    IF InSeq(filePath, prev)
    THEN SelectSeq(prev, LAMBDA x : x # filePath)
    ELSE Append(prev, filePath)

\* Variant: the handler goes on whatever the dialog returned.
DeleteProceedsAlways(confirmed) == TRUE

\* lines 501 and 531: if (!confirmed) return
DeleteProceeds(confirmed) == confirmed

\* Variant: the summary always has the success style.
SummaryStyleSuccess(errorCount) == "Success"

\* line 550: errorCount === 0 ? Toast.Style.Success : Toast.Style.Failure
SummaryStyle(errorCount) == IF errorCount = 0 THEN "Success" ELSE "Failure"

\* lines 549-553
SummaryToast(successCount, errorCount) ==
    Toast(SummaryStyle(errorCount),
          [text |-> "Deleted files", count |-> successCount],
          [text |-> IF errorCount > 0 THEN "files failed to delete"
                    ELSE "undefined",
           count |-> errorCount])

DeleteInvoked(kind, file, selected) ==
    [NoDelete EXCEPT !.pc = "confirm", !.inv = fh.inv + 1, !.kind = kind,
                     !.file = file, !.selected = selected]

\* the handler returned: its locals are gone
DeleteEnded ==
    [NoDelete EXCEPT !.pc = "ended", !.inv = fh.inv, !.answer = fh.answer]

fsmOthers == <<searchVars, csvVars, command, showSystemProcesses, mounted,
               processList, isLoading, loads, kh>>

fhFrame ==
    /\ UNCHANGED selectedFiles
    /\ UNCHANGED fsmOthers

\* the Select / Deselect action of a list item; no action can be chosen
\* while a confirmation dialog is open
ToggleFileSelection ==
    /\ command = "fsm"
    /\ fh.pc # "confirm"
    /\ \E filePath \in SelectablePaths :
          selectedFiles' = toggleFileSelection(selectedFiles, filePath)
    /\ UNCHANGED fh
    /\ UNCHANGED fsmOthers

\* lines 491-499: the Delete action of a list item; the dialog opens
HandleDeleteFile ==
    /\ command = "fsm"
    /\ fh.pc \in {"idle", "ended"}
    /\ fh.inv < MaxDeletes
    /\ \E file \in SelectablePaths :
          fh' = DeleteInvoked("single", file, <<>>)
    /\ fhFrame

\* lines 519-529: the Delete Selected action; with an empty selection the
\* handler returns at once, otherwise the dialog opens. The handler reads
\* the selection of the render it was created in.
HandleBulkDelete ==
    /\ command = "fsm"
    /\ fh.pc \in {"idle", "ended"}
    /\ fh.inv < MaxDeletes
    /\ fh' = IF Len(selectedFiles) = 0
             THEN [NoDelete EXCEPT !.pc = "ended", !.inv = fh.inv + 1]
             ELSE DeleteInvoked("bulk", 0, selectedFiles)
    /\ fhFrame

\* lines 501 and 531-535: the dialog returned
DeleteAnswered ==
    /\ fh.pc = "confirm"
    /\ \E confirmed \in BOOLEAN :
          fh' = IF DeleteProceeds(confirmed)
                THEN [fh EXCEPT !.pc = IF fh.kind = "single" THEN "trash"
                                       ELSE "loop",
                                !.filesToDelete = fh.selected,
                                !.answer = IF confirmed THEN "yes" ELSE "no"]
                ELSE [DeleteEnded EXCEPT !.answer = "no"]
    /\ fhFrame

\* lines 503-516: trash(file.path) resolved or rejected; the toast
DeleteFileTrash ==
    /\ fh.pc = "trash"
    /\ \E ok \in BOOLEAN :
          fh' = [fh EXCEPT !.pc = "toast",
                           !.trashed = Append(@, fh.file),
                           !.toasts = Append(@,
                               IF ok
                               THEN Toast("Success", "File deleted", fh.file)
                               ELSE Toast("Failure", "Failed to delete file",
                                          "error.message"))]
    /\ fhFrame

\* lines 537-545: one round of the loop over filesToDelete
BulkDeleteTrash ==
    /\ fh.pc = "loop"
    /\ Len(fh.trashed) < Len(fh.filesToDelete)
    /\ \E ok \in BOOLEAN :
          fh' = [fh EXCEPT !.trashed =
                               Append(@, fh.filesToDelete[Len(fh.trashed) + 1]),
                           !.successCount = IF ok THEN @ + 1 ELSE @,
                           !.errorCount = IF ok THEN @ ELSE @ + 1]
    /\ fhFrame

\* lines 547-553: after the loop, setSelectedFiles(new Set()) and the
\* summary toast
BulkDeleteSummary ==
    /\ fh.pc = "loop"
    /\ Len(fh.trashed) = Len(fh.filesToDelete)
    /\ selectedFiles' = <<>>
    /\ fh' = [fh EXCEPT !.pc = "toast",
                        !.toasts = Append(@,
                            SummaryToast(fh.successCount, fh.errorCount))]
    /\ UNCHANGED fsmOthers

\* the awaited showToast returned and the handler ends
DeleteToastShown ==
    /\ fh.pc = "toast"
    /\ fh' = DeleteEnded
    /\ fhFrame

NextFsm ==
    \/ ToggleFileSelection
    \/ HandleDeleteFile
    \/ HandleBulkDelete
    \/ DeleteAnswered
    \/ DeleteFileTrash
    \/ BulkDeleteTrash
    \/ BulkDeleteSummary
    \/ DeleteToastShown

\* one of the two commands is opened
InitUi ==
    /\ command \in {"pm", "fsm"}
    /\ showSystemProcesses \in BOOLEAN
    /\ InitUiState
    /\ InitSearchIdle
    /\ InitCsvIdle

NextUi == NextPm \/ NextFsm

SpecUi == InitUi /\ [][NextUi]_vars

\* every awaited call of a started handler or listing settles
SpecUiFair == SpecUi /\ WF_vars(NextPm) /\ WF_vars(NextFsm)

\* ------------------------------------------------------------------------
\* Vocabulary of the properties of the file search, stated on the forest
\* and the preferences, independently of the walk
\* ------------------------------------------------------------------------
Paths(fs) == {fs[i].path : i \in 1..Len(fs)}

WalkCall == ~useEverything /\ Trim(query) # <<>>

WalkDone == pc = "done" /\ WalkCall

HasDotPrefix(nm) == Len(nm) >= 1 /\ nm[1] = "."

ContainsText(nm, p) ==
    \E i \in 1..(Len(nm) + 1) :
        /\ i + Len(p) - 1 <= Len(nm)
        /\ \A k \in 1..Len(p) : nm[i + k - 1] = p[k]

NameExcludedByPrefs(n) ==
    \E i \in 1..Len(excludePatterns) : ContainsText(entryName[n], excludePatterns[i])

NameMatchesQuery(n) ==
    ContainsText(ToLowerCase(entryName[n]), ToLowerCase(query))

Beneath(m, n) == m = n \/ n \in Ancestors(m)

\* Every directory from the root down to the parent of n is readable, is at
\* most maxDirDepth deep and, below the root, is neither hidden nor excluded.
PathClear(n, maxDirDepth) ==
    \A a \in Ancestors(n) :
        /\ a \notin unreadable
        /\ DepthOf(a) <= maxDirDepth
        /\ a \notin Roots => /\ ~HasDotPrefix(entryName[a])
                             /\ ~NameExcludedByPrefs(a)

\* n is an entry the search is to report
Reportable(n, maxDirDepth) ==
    /\ n \notin Roots
    /\ \E i \in 1..Len(searchPaths) : searchPaths[i] = RootOf(n)
    /\ NameMatchesQuery(n)
    /\ ~(HasDotPrefix(entryName[n]) /\ ~includeHidden)
    /\ ~NameExcludedByPrefs(n)
    /\ n \notin statFails
    /\ PathClear(n, maxDirDepth)

\* ------------------------------------------------------------------------
\* C1: a completed search that used the recursive walk returns at most
\* maxResults records, however many entries on disk match.
\* ------------------------------------------------------------------------
C1_AtMostMaxResults ==
    (pc = "done" /\ ~useEverything) => Len(result) <= maxResults

C1_Witness ==
    /\ WalkDone
    /\ maxResults >= 1
    /\ Len(result) = maxResults
    /\ Cardinality({n \in Nodes : Reportable(n, MaxDepth)}) > maxResults

\* ------------------------------------------------------------------------
\* C2: with includeHidden false no record of the walk, collected or
\* returned, has a name starting with '.', at any depth.
\* ------------------------------------------------------------------------
C2_NoHiddenRecords ==
    (WalkCall /\ ~includeHidden) =>
        /\ \A i \in 1..Len(files) : ~HasDotPrefix(files[i].name)
        /\ \A i \in 1..Len(result) : ~HasDotPrefix(result[i].name)

\* A matching non-hidden directory (2) was returned and the hidden entry (5)
\* inside it was not.
C2_Witness ==
    /\ WalkDone
    /\ ~includeHidden
    /\ HasDotPrefix(entryName[5])
    /\ 2 \in Paths(result)
    /\ 5 \notin Paths(result)
    /\ 2 \in listed
    /\ Len(result) < maxResults

C4_ExcludedSubtree ==
    WalkCall =>
        \A n \in Nodes \ Roots :
            NameExcludedByPrefs(n) =>
                /\ n \notin listed
                /\ \A m \in Nodes :
                      Beneath(m, n) =>
                          /\ m \notin Paths(files)
                          /\ m \notin Paths(result)
                          /\ m \notin listed
                          /\ m \notin statted

\* Directory 12 is excluded by a pattern that is a proper substring of its
\* name; it and the matching file 14 inside it are absent while its parent
\* was listed and the search ran to its end below the cap.
C4_Witness ==
    /\ WalkDone
    /\ NameExcludedByPrefs(12)
    /\ \A i \in 1..Len(excludePatterns) : excludePatterns[i] # entryName[12]
    /\ NameMatchesQuery(12)
    /\ NameMatchesQuery(14)
    /\ 11 \in listed
    /\ 11 \notin readFailed
    /\ 12 \notin listed
    /\ 13 \in Paths(result)
    /\ Len(result) < maxResults

\* ------------------------------------------------------------------------
\* C5: a directory whose listing fails contributes no entries and does not
\* abort the search: a completed walk returned every reportable entry of the
\* readable directories unless it stopped at the cap, only the failed
\* directory's own subtree is missing, and an unfinished search can always
\* take its next step.
\* ------------------------------------------------------------------------
C5_ReadFailureIsLocal ==
    /\ WalkDone =>
          \/ Len(result) = maxResults
          \/ \A n \in Nodes : Reportable(n, MaxDepth) => n \in Paths(result)
    /\ WalkCall =>
          \A d \in readFailed :
             \A m \in Nodes : (Beneath(m, d) /\ m # d) => m \notin Paths(files)
    /\ (WalkCall /\ pc # "done") => ENABLED NextSearch

\* A nested directory (2) failed to list; its sibling 3 and an entry of the
\* other root were still returned.
C5_Witness ==
    /\ WalkDone
    /\ readFailed = {2}
    /\ 3 \in Paths(result)
    /\ \E n \in Paths(result) : RootOf(n) = 11
    /\ Len(result) < maxResults

\* ------------------------------------------------------------------------
\* C6 as stated: when the accelerated search is enabled and its subprocess
\* fails, searchFiles returns the records of the recursive walk.
\* ------------------------------------------------------------------------
C6_FallbackToWalk ==
    (pc = "done" /\ useEverything /\ esFailed) =>
        \/ Len(result) = maxResults
        \/ \A n \in Nodes : Reportable(n, MaxDepth) => n \in Paths(result)

\* ------------------------------------------------------------------------
\* Vocabulary of the properties of the parser, stated on the text by
\* positions, independently of the scanning loop
\* ------------------------------------------------------------------------
QuotesBefore(line, i) == Cardinality({j \in 1..(i - 1) : line[j] = QUOTE})

CommasUpTo(line, i) == Cardinality({j \in 1..i : line[j] = COMMA})

\* Positions of the commas that are not inside a quoted span
OutsideCommas(line) ==
    {i \in 1..Len(line) : line[i] = COMMA /\ QuotesBefore(line, i) % 2 = 0}

BalancedQuotes(line) == QuotesBefore(line, Len(line) + 1) % 2 = 0

NoQuotedComma(line) ==
    \A i \in 1..Len(line) : line[i] = COMMA => QuotesBefore(line, i) % 2 = 0

LineBreaks(t) == {i \in 1..Len(t) : t[i] = LF}

LineStarts(t) == {1} \cup {p + 1 : p \in LineBreaks(t)}

LineAt(t, st) ==
    LET after == {p \in LineBreaks(t) : p >= st}
    IN  IF after = {} THEN SubSeq(t, st, Len(t))
        ELSE LET e == CHOOSE p \in after : \A r \in after : p <= r
                 last == IF e - 1 >= st /\ t[e - 1] = CR THEN e - 2 ELSE e - 1
             IN  SubSeq(t, st, last)

NthLineStart(t, k) ==
    CHOOSE st \in LineStarts(t) :
        Cardinality({x \in LineStarts(t) : x < st}) = k - 1

\* The lines of a text, in order
TextLines(t) ==
    [k \in 1..Cardinality(LineStarts(t)) |-> LineAt(t, NthLineStart(t, k))]

Unquoted(s) == SelectSeq(s, LAMBDA c : c # QUOTE)

\* The j-th field of a line: the text between the (j-1)-th and the j-th
\* comma outside quotes, without its quote characters, trimmed
FieldAt(line, j) ==
    LET oc == OutsideCommas(line)
        from == IF j = 1 THEN 1
                ELSE 1 + CHOOSE p \in oc : Cardinality({x \in oc : x < p}) = j - 2
        to == IF j = Cardinality(oc) + 1 THEN Len(line)
              ELSE (CHOOSE p \in oc : Cardinality({x \in oc : x < p}) = j - 1) - 1
    IN  Trim(Unquoted(SubSeq(line, from, to)))

LineFields(line) ==
    [j \in 1..(Cardinality(OutsideCommas(line)) + 1) |-> FieldAt(line, j)]

KeptLines(t) == SelectSeq(TextLines(t), LAMBDA l : FieldAt(l, 1) # <<>>)

ExpectedRows(t) == [k \in 1..Len(KeptLines(t)) |-> LineFields(KeptLines(t)[k])]

Parsed == ppc = "parsed"

\* ------------------------------------------------------------------------
\* C7: parseWindowsCSV never splits at a comma inside a quoted span and
\* strips the quote characters: a row has one field more than its line has
\* commas outside quotes, no field contains a double quote, and a line
\* "x,y",c,d parses to exactly the row [x,y  c  d].
\* ------------------------------------------------------------------------
C7_QuotedCommaKept ==
    Parsed =>
        /\ \A k \in 1..Len(rows) : \A j \in 1..Len(rows[k]) :
              \A i \in 1..Len(rows[k][j]) : rows[k][j][i] # QUOTE
        /\ Len(rows) = Len(KeptLines(csvOutput))
        /\ \A k \in 1..Len(rows) :
              Len(rows[k]) = Cardinality(OutsideCommas(KeptLines(csvOutput)[k])) + 1
        /\ \A x \in TokenChoices, y \in TokenChoices, c \in TokenChoices,
              d \in TokenChoices :
              csvOutput = QuotedCommaLine(x, y, c, d) =>
                  rows = << <<x \o <<COMMA>> \o y, c, d>> >>

C7_Witness ==
    /\ Parsed
    /\ csvOutput = <<QUOTE, "a", COMMA, "a", " ", "b", QUOTE, COMMA, "a", COMMA, "a">>
    /\ rows = << << <<"a", COMMA, "a", " ", "b">>, <<"a">>, <<"a">> >> >>

\* ------------------------------------------------------------------------
\* C8: for a line with balanced quotes and no comma inside a quoted span,
\* the row produced has (number of commas) + 1 fields, and two consecutive
\* commas produce an empty field between them.
\* ------------------------------------------------------------------------
C8_FieldCount ==
    Parsed =>
        /\ Len(rows) = Len(KeptLines(csvOutput))
        /\ \A k \in 1..Len(rows) :
              LET line == KeptLines(csvOutput)[k] IN
              (BalancedQuotes(line) /\ NoQuotedComma(line)) =>
                  /\ Len(rows[k]) = CommasUpTo(line, Len(line)) + 1
                  /\ \A i \in 1..(Len(line) - 1) :
                        (line[i] = COMMA /\ line[i + 1] = COMMA) =>
                            rows[k][CommasUpTo(line, i) + 1] = <<>>

C8_Witness ==
    /\ Parsed
    /\ csvOutput = <<"a", COMMA, COMMA, "a">>
    /\ rows = << << <<"a">>, <<>>, <<"a">> >> >>

\* ------------------------------------------------------------------------
\* C9: parseWindowsCSV drops exactly the lines whose first field is empty
\* after trimming, keeps the other lines in input order, returns the empty
\* sequence for the empty text, and every row has a non-empty first field.
\* ------------------------------------------------------------------------
C9_EmptyFirstFieldDropped ==
    Parsed =>
        /\ rows = ExpectedRows(csvOutput)
        /\ \A k \in 1..Len(rows) : Len(rows[k]) >= 1 /\ rows[k][1] # <<>>
        /\ csvOutput = <<>> => rows = <<>>

\* The second line starts with a comma and is dropped; the first is kept.
C9_Witness ==
    /\ Parsed
    /\ csvOutput = <<"a", LF, COMMA, "a">>
    /\ rows = << << <<"a">> >> >>

\* ------------------------------------------------------------------------
\* C10: getRunningProcesses resolves to exactly the parsed rows that have a
\* non-empty name (field 0) and a non-empty pid (field 1), in their order.
\* ------------------------------------------------------------------------
WellFormedRows ==
    {i \in 1..Len(rows) :
        Len(rows[i]) >= 2 /\ rows[i][1] # <<>> /\ rows[i][2] # <<>>}

NthWellFormed(j) ==
    CHOOSE i \in WellFormedRows :
        Cardinality({x \in WellFormedRows : x < i}) = j - 1

C10_WellFormedRowsKept ==
    ppc = "resolved" =>
        /\ rows = ExpectedRows(csvOutput)
        /\ Len(processes) = Cardinality(WellFormedRows)
        /\ \A j \in 1..Len(processes) :
              LET row == rows[NthWellFormed(j)] IN
              /\ processes[j].name = row[1]
              /\ processes[j].pid = row[2]
              /\ processes[j].sessionName = IF Len(row) >= 3 THEN row[3] ELSE <<>>

\* The first row has no pid field and is dropped, the second is returned.
C10_Witness ==
    /\ ppc = "resolved"
    /\ Len(rows) = 2
    /\ Len(rows[1]) = 1
    /\ Len(processes) = 1
    /\ processes[1].name = rows[2][1]
    /\ processes[1].pid = rows[2][2]

\* ------------------------------------------------------------------------
\* C13: once the shared result list of a walk holds maxResults records, no
\* step of that search examines a further entry, stats a further entry or
\* lists a further directory; with maxResults 0 no directory is ever listed.
\* ------------------------------------------------------------------------
C13_CapStopsWalk ==
    [][/\ Len(files) >= maxResults =>
             /\ examined' = examined
             /\ statted' = statted
             /\ listed' = listed
       /\ maxResults = 0 => listed' = {}]_vars

\* The cap was reached on a matching directory, which is then never listed,
\* and a later search path was never opened.
C13_Witness ==
    /\ WalkDone
    /\ maxResults >= 1
    /\ Len(files) = maxResults
    /\ \E d \in Dirs \ Roots :
          /\ d \in Paths(files)
          /\ ~HasDotPrefix(entryName[d])
          /\ d \notin listed
          /\ \A c \in Nodes : Beneath(c, d) /\ c # d => c \notin examined
    /\ \E i \in 1..Len(searchPaths) : searchPaths[i] \notin listed

\* ------------------------------------------------------------------------
\* C16: the walk lists every non-hidden, non-excluded directory it reaches
\* within the depth ceiling, whether or not the directory's name matched the
\* query, and it never lists a directory whose name starts with '.', even
\* with includeHidden true: such a directory can be returned as a record but
\* no entry beneath it is examined or returned.
\* ------------------------------------------------------------------------
C16_DescendsUnlessHidden ==
    WalkCall =>
        /\ \A d \in listed \ Roots : ~HasDotPrefix(entryName[d])
        /\ \A n \in Nodes \ Roots :
              HasDotPrefix(entryName[n]) =>
                  \A m \in Nodes :
                     (Beneath(m, n) /\ m # n) =>
                         /\ m \notin examined
                         /\ m \notin Paths(files)
                         /\ m \notin Paths(result)
        /\ (pc = "done" /\ Len(result) < maxResults) =>
              \A d \in Dirs \ Roots :
                 ( /\ \E i \in 1..Len(searchPaths) : searchPaths[i] = RootOf(d)
                   /\ ~HasDotPrefix(entryName[d])
                   /\ ~NameExcludedByPrefs(d)
                   /\ DepthOf(d) <= MaxDepth
                   /\ PathClear(d, MaxDepth) ) => d \in listed

\* With includeHidden true the hidden directory 2 was returned and not
\* listed, the matching entry 5 inside it was not returned, and directory 12,
\* whose name does not match, was listed and the entry 14 in it returned.
C16_Witness ==
    /\ WalkDone
    /\ includeHidden
    /\ HasDotPrefix(entryName[2])
    /\ 2 \in Paths(result)
    /\ 2 \notin listed
    /\ NameMatchesQuery(5)
    /\ 5 \notin Paths(result)
    /\ ~NameMatchesQuery(12)
    /\ 12 \in listed
    /\ 14 \in Paths(result)

\* ------------------------------------------------------------------------
\* C18: a started searchFileSystem call ends: it runs out of directories to
\* list or reaches the cap, and the search resolves.
\* ------------------------------------------------------------------------
C18_WalkTerminates ==
    (pc = "fs_loop") ~> (pc = "done")

\* A walk that ended by exhausting the traversal, one directory of which
\* could not be read.
C18_Witness ==
    /\ WalkDone
    /\ pathIdx > Len(searchPaths)
    /\ Len(searchPaths) = 2
    /\ Len(files) < maxResults
    /\ readFailed # {}
    /\ stack = <<>>

\* ------------------------------------------------------------------------
\* C19: when the Everything tool is used and succeeds, the records returned
\* satisfy the constraints of the walk, whatever rows the tool printed: no
\* name starting with '.' when includeHidden is false, no name containing
\* an exclude pattern, and at most maxResults records.
\* ------------------------------------------------------------------------
C19_EverythingSameConstraints ==
    (pc = "done" /\ useEverything /\ ~esFailed /\ Trim(query) # <<>>) =>
        /\ ~includeHidden => \A i \in 1..Len(result) : ~HasDotPrefix(result[i].name)
        /\ \A i \in 1..Len(result) : ~NameExcludedByPrefs(result[i].path)
        /\ Len(result) <= maxResults

\* ------------------------------------------------------------------------
\* C17: a line with an unmatched double quote is parsed without error; from
\* its last quote to its end no comma separates, so those commas are part of
\* the last field; the quote state starts afresh at the next line, whose
\* fields are those the line has on its own.
\* ------------------------------------------------------------------------
LastQuote(line) ==
    CHOOSE q \in 1..Len(line) :
        line[q] = QUOTE /\ \A i \in (q + 1)..Len(line) : line[i] # QUOTE

CommaCount(s) == Cardinality({i \in 1..Len(s) : s[i] = COMMA})

C17_UnmatchedQuoteStaysInLine ==
    Parsed =>
        /\ Len(rows) = Len(KeptLines(csvOutput))
        /\ \A k \in 1..Len(rows) :
              LET line == KeptLines(csvOutput)[k] IN
              /\ rows[k] = LineFields(line)
              /\ ~BalancedQuotes(line) =>
                    LET q == LastQuote(line)
                        before == {i \in 1..q : /\ line[i] = COMMA
                                                /\ QuotesBefore(line, i) % 2 = 0}
                        after == {i \in (q + 1)..Len(line) : line[i] = COMMA}
                    IN  /\ Len(rows[k]) = Cardinality(before) + 1
                        /\ CommaCount(rows[k][Len(rows[k])]) >= Cardinality(after)

\* The first line opens a quote it never closes and its comma is content;
\* the second line is split at its comma.
C17_Witness ==
    /\ Parsed
    /\ csvOutput = <<QUOTE, "a", COMMA, "a", LF, "a", COMMA, "a">>
    /\ rows = << << <<"a", COMMA, "a">> >>, << <<"a">>, <<"a">> >> >>

\* ------------------------------------------------------------------------
\* Vocabulary of the properties of the two components
\* ------------------------------------------------------------------------
Occurrences(x, sq) == Cardinality({i \in 1..Len(sq) : sq[i] = x})

\* a kill handler call whose dialog returned false has ended and left
\* no trace
KillDeclinedClean(k, ls) ==
    k.answer = "no" =>
        /\ k.pc = "ended"
        /\ k.commands = <<>>
        /\ k.toasts = <<>>
        /\ k.load = 0
        /\ \A i \in 1..Len(ls) : ls[i].inv # k.inv

\* a delete handler call whose dialog returned false has ended and left
\* no trace
DeleteDeclinedClean(f) ==
    f.answer = "no" =>
        /\ f.pc = "ended"
        /\ f.trashed = <<>>
        /\ f.toasts = <<>>

\* ------------------------------------------------------------------------
\* C11: when the user declines the confirmation dialog of handleKillProcess,
\* handleKillAllByName, handleDeleteFile or handleBulkDelete, the handler
\* ends there: the step changes neither the process list, the loading flag,
\* the listing calls nor the selection, and the declined call issues no
\* taskkill command, no trash call, no notification and no list refresh.
\* ------------------------------------------------------------------------
C11_DeclineDoesNothing ==
    [][/\ KillDeclinedClean(kh', loads')
       /\ DeleteDeclinedClean(fh')
       /\ ( \/ (kh.pc = "confirm" /\ kh'.answer = "no")
            \/ (fh.pc = "confirm" /\ fh'.answer = "no") ) =>
             /\ processList' = processList
             /\ loads' = loads
             /\ isLoading' = isLoading
             /\ selectedFiles' = selectedFiles]_vars

\* A kill handler call, the second one made, was declined while a listing call
\* was in flight and the list was not empty.
C11_Witness ==
    /\ command = "pm"
    /\ kh.pc = "ended"
    /\ kh.inv = 2
    /\ kh.answer = "no"
    /\ processList # <<>>
    /\ InFlight # {}

\* ------------------------------------------------------------------------
\* C12: a taskkill command that was issued ends in success or in failure;
\* when it fails (command not found, access denied, timeout, non-zero exit)
\* the error of killProcess / killProcessByName names the pid or the name
\* the command was issued for, the handler shows exactly one notification,
\* of failure style and with that error as its message, starts no refresh
\* and ends.
\* ------------------------------------------------------------------------
C12_KillFailureReported ==
    command = "pm" =>
        /\ kh.pc = "taskkill" =>
              /\ kh.commands = <<KillCommand(kh.kind, kh.ident)>>
              /\ kh.error = NoError
              /\ ENABLED KillSucceeds
              /\ ENABLED KillFails
        /\ kh.error # NoError =>
              /\ kh.pc = "toastFail"
              /\ kh.ident # <<>>
              /\ kh.error.ident = kh.ident
              /\ kh.commands[1].ident = kh.error.ident
              /\ Len(kh.toasts) = 1
              /\ kh.toasts[1].style = "Failure"
              /\ kh.toasts[1].message = kh.error
              /\ kh.load = 0
        /\ kh.pc \in {"toastOk", "refresh"} =>
              /\ kh.error = NoError
              /\ Len(kh.toasts) = 1
              /\ kh.toasts[1].style = "Success"

\* A Kill All call whose command hit the timeout shows its failure
\* notification.
C12_Witness ==
    /\ command = "pm"
    /\ kh.pc = "toastFail"
    /\ kh.kind = "name"
    /\ kh.error = KillError(<<"a">>, "Command failed: Error")
    /\ Len(kh.toasts) = 1
    /\ kh.toasts[1].title = "Failed to kill processes"

\* ------------------------------------------------------------------------
\* C14: a confirmed handleBulkDelete calls trash once for every path that
\* was selected, in spite of failures; successCount + errorCount is the
\* number of selected paths; when the loop is over the selection is emptied
\* and exactly one notification is shown, of failure style exactly when
\* errorCount > 0.
\* ------------------------------------------------------------------------
BulkDeleteOver(f) ==
    /\ f.kind = "bulk"
    /\ f.answer = "yes"
    /\ Len(f.selected) > 0
    /\ f.pc = "toast"

C14_BulkDeleteSummary ==
    [][/\ (fh'.kind = "bulk" /\ fh'.pc = "loop") =>
             /\ fh'.successCount + fh'.errorCount = Len(fh'.trashed)
             /\ fh'.toasts = <<>>
       /\ BulkDeleteOver(fh') =>
             /\ \A p \in SelectablePaths :
                   Occurrences(p, fh'.trashed) =
                       IF InSeq(p, fh'.selected) THEN 1 ELSE 0
             /\ fh'.successCount + fh'.errorCount = Len(fh'.selected)
             /\ Len(fh'.toasts) = 1
             /\ fh'.toasts[1].style = "Failure" <=> fh'.errorCount > 0
             /\ fh'.toasts[1].title.count = fh'.successCount
       /\ (fh.pc = "loop" /\ fh'.pc # "loop") =>
             /\ BulkDeleteOver(fh')
             /\ selectedFiles' = <<>>]_vars

\* Three paths were selected; one trash call failed and two succeeded.
C14_Witness ==
    /\ command = "fsm"
    /\ fh.pc = "toast"
    /\ fh.kind = "bulk"
    /\ Len(fh.selected) = 3
    /\ Len(fh.trashed) = 3
    /\ fh.errorCount = 1
    /\ fh.successCount = 2
    /\ fh.toasts[1].style = "Failure"
    /\ selectedFiles = <<>>

\* ------------------------------------------------------------------------
\* C15: nothing keeps a new loadProcesses call from starting while another
\* is in flight: the interval can fire, and the Refresh List action can run,
\* in every state of the mounted component that has calls in flight, so two
\* listing calls are in flight at the same time.
\* ------------------------------------------------------------------------
C15_RefreshNotGuarded ==
    (command = "pm" /\ mounted /\ Len(loads) + Reserved < MaxLoads) =>
        /\ ENABLED TimerTick
        /\ kh.pc # "confirm" => ENABLED ManualRefresh

\* The call started on mount is still listing and a second call, started
\* by the interval or by Refresh List (no kill handler was ever invoked),
\* is listing too.
C15_Witness ==
    /\ command = "pm"
    /\ Len(loads) >= 2
    /\ loads[1].state = "listing"
    /\ loads[2].state = "listing"
    /\ loads[2].inv = 0
    /\ kh.inv = 0
    /\ Cardinality(InFlight) >= 2

\* ------------------------------------------------------------------------
\* C20: in ProcessManager, isLoading is true whenever a loadProcesses call
\* is in flight; it is false only when none is.
\* ------------------------------------------------------------------------
C20_LoadingWhileInFlight ==
    command = "pm" => (InFlight # {} => isLoading)

\* ------------------------------------------------------------------------
\* C21: in ProcessManager, when no loadProcesses call is in flight any more,
\* the process list in state is the outcome of the call that was started
\* last: its filtered rows when it succeeded, the empty list when it failed.
\* ------------------------------------------------------------------------
C21_LastStartedWins ==
    (command = "pm" /\ loads # <<>> /\ InFlight = {}) =>
        processList = loads[Len(loads)].list
====
